---- MODULE Spec2Model ----
(***************************************************************************)
(* The protocol orchestration engine of looktony (class ProtocolEngine)    *)
(* together with the part of its collaborator TacticalCore it calls.       *)
(*                                                                         *)
(* The engine is asynchronous JavaScript: a handler runs without           *)
(* interruption up to its next `await`, and the continuation after an      *)
(* `await` is a later job.  Every action below is one such uninterrupted   *)
(* run: an external call up to its first suspension, or the continuation   *)
(* of one suspended call up to its next suspension.  Which of the pending  *)
(* continuations runs next is left open.                                   *)
(***************************************************************************)
EXTENDS Integers, Sequences, FiniteSets, TLC

(***************************************************************************)
(* Bounds of the model.                                                    *)
(***************************************************************************)
MaxCalls == 4      \* external calls (load / activate / situational update)
MaxTasks == 5      \* calls suspended at an await at the same time
MaxNow == 1        \* readings of the wall clock: 0 .. MaxNow
MaxSteps == 2      \* steps of an enumerated definition (GraphProtocols)

(***************************************************************************)
(* JavaScript values that reach the condition evaluator.                   *)
(*   undefined, null, a number, the plain object {threat: n}, an array of  *)
(*   numbers.                                                              *)
(***************************************************************************)
Undefined == [k |-> "undefined", n |-> 0, items |-> <<>>]
Null == [k |-> "null", n |-> 0, items |-> <<>>]
Num(n) == [k |-> "number", n |-> n, items |-> <<>>]
Obj(n) == [k |-> "object", n |-> n, items |-> <<>>]
Arr(s) == [k |-> "array", n |-> 0, items |-> s]

\* A number or NaN.
NaN == [nan |-> TRUE, v |-> 0]
Finite(n) == [nan |-> FALSE, v |-> n]

\* ToNumber(ToPrimitive(v)): a plain object becomes "[object Object]" and so
\* NaN; an array becomes its elements joined by commas: "" is 0, "7" is 7,
\* "1,2" is NaN.
ToNumber(v) ==
    CASE v.k = "undefined" -> NaN
      [] v.k = "null" -> Finite(0)
      [] v.k = "number" -> Finite(v.n)
      [] v.k = "object" -> NaN
      [] v.k = "array" ->
            IF Len(v.items) = 0 THEN Finite(0)
            ELSE IF Len(v.items) = 1 THEN Finite(v.items[1])
            ELSE NaN

\* a > b and a < b where b is a number, undefined or null (the comparison
\* values of the definitions below), so both sides are compared as numbers;
\* any comparison with NaN is false.
JsGreater(a, b) ==
    LET x == ToNumber(a)
        y == ToNumber(b)
    IN  ~x.nan /\ ~y.nan /\ x.v > y.v

JsLess(a, b) ==
    LET x == ToNumber(a)
        y == ToNumber(b)
    IN  ~x.nan /\ ~y.nan /\ x.v < y.v

\* a === b.  Objects and arrays are equal only to themselves; a context value
\* and a comparison value are never the same object.
JsStrictEquals(a, b) ==
    /\ a.k = b.k
    /\ CASE a.k = "undefined" -> TRUE
         [] a.k = "null" -> TRUE
         [] a.k = "number" -> a.n = b.n
         [] OTHER -> FALSE

\* Array.isArray(a) && a.includes(b)
JsArrayIncludes(a, b) ==
    /\ a.k = "array"
    /\ b.k = "number"
    /\ \E i \in 1..Len(a.items) : a.items[i] = b.n

(***************************************************************************)
(* Condition evaluator.                                                    *)
(***************************************************************************)
Cond(type, operator, value) == [type |-> type, operator |-> operator, value |-> value]

Ctx(environmental, tactical) == [environmental |-> environmental, tactical |-> tactical]

\* clock is the reading Date.now() returns.
getContextValue(type, context, clock) ==
    CASE type = "environmental" -> context.environmental
      [] type = "tactical" -> context.tactical
      [] type = "temporal" -> Num(clock)
      [] OTHER -> Null

evaluateCondition(condition, context, clock) ==
    LET actualValue == getContextValue(condition.type, context, clock)
    IN  CASE condition.operator = "equals" -> JsStrictEquals(actualValue, condition.value)
          [] condition.operator = "greater" -> JsGreater(actualValue, condition.value)
          [] condition.operator = "less" -> JsLess(actualValue, condition.value)
          [] condition.operator = "contains" -> JsArrayIncludes(actualValue, condition.value)
          [] OTHER -> FALSE

\* conditions.every(condition => this.evaluateCondition(condition, context))
everyCondition(conditions, context, clock) ==
    \A i \in 1..Len(conditions) : evaluateCondition(conditions[i], context, clock)

(***************************************************************************)
(* Protocol definitions.                                                   *)
(*   A step's completionCriteria is optional: hasCriteria says whether the *)
(*   property is present, criteria is its value (<<>> when absent).        *)
(***************************************************************************)
Step(id, action, nextSteps, hasCriteria, criteria) ==
    [id |-> id, action |-> action, nextSteps |-> nextSteps,
     hasCriteria |-> hasCriteria, criteria |-> criteria]

Protocol(id, steps, conditions) == [id |-> id, steps |-> steps, conditions |-> conditions]

\* What Map.get returns for a key that is not in the map.
NoProtocol == Protocol("", <<>>, <<>>)

\* protocol.steps.find(s => s.id === id): the index of the first step with
\* that id, 0 when there is none.
findStep(protocol, id) ==
    IF \E i \in 1..Len(protocol.steps) : protocol.steps[i].id = id
    THEN CHOOSE i \in 1..Len(protocol.steps) :
            /\ protocol.steps[i].id = id
            /\ \A j \in 1..(i - 1) : protocol.steps[j].id # id
    ELSE 0

\* A validator that looks only at the references of the first step.
validateProtocolFirstStepOnly(protocol) ==
    IF Len(protocol.steps) = 0 THEN "StructuralError"
    ELSE LET stepIds == {protocol.steps[i].id : i \in 1..Len(protocol.steps)}
         IN  IF \E j \in 1..Len(protocol.steps[1].nextSteps) :
                    protocol.steps[1].nextSteps[j] \notin stepIds
             THEN "StructuralError"
             ELSE "ok"

\* A validator that also refuses duplicate step ids and a step that names
\* itself or is named back by its successor.
validateProtocolStrict(protocol) ==
    LET n == Len(protocol.steps)
        stepIds == {protocol.steps[i].id : i \in 1..n}
        names(i, j) == \E k \in 1..Len(protocol.steps[i].nextSteps) :
                          protocol.steps[i].nextSteps[k] = protocol.steps[j].id
    IN  IF n = 0 THEN "StructuralError"
        ELSE IF \E i \in 1..n : \E j \in 1..Len(protocol.steps[i].nextSteps) :
                    protocol.steps[i].nextSteps[j] \notin stepIds
        THEN "StructuralError"
        ELSE IF \E i, j \in 1..n : i # j /\ protocol.steps[i].id = protocol.steps[j].id
        THEN "StructuralError"
        ELSE IF \E i, j \in 1..n : names(i, j) /\ names(j, i)
        THEN "StructuralError"
        ELSE "ok"

\* The validator: "ok", or the error it throws.
validateProtocol(protocol) ==
    IF Len(protocol.steps) = 0 THEN "StructuralError"
    ELSE LET stepIds == {protocol.steps[i].id : i \in 1..Len(protocol.steps)}
         IN  IF \E i \in 1..Len(protocol.steps) :
                    \E j \in 1..Len(protocol.steps[i].nextSteps) :
                        protocol.steps[i].nextSteps[j] \notin stepIds
             THEN "StructuralError"
             ELSE "ok"

(***************************************************************************)
(* The collaborator TacticalCore.                                          *)
(***************************************************************************)
\* The layers its constructor creates; none is ever removed.
layers == {"operations", "intel", "assets"}

\* addTacticalElement(layerId, element) throws for an unknown layer.
addTacticalElement(layerId) == IF layerId \in layers THEN "ok" ELSE "threw"

\* The payload of 'situation:updated' is {timestamp, weather, traffic,
\* tacticalElements}: spread into a context it leaves the properties
\* environmental and tactical undefined.
situationContext == Ctx(Undefined, Undefined)

(***************************************************************************)
(* The engine's state.                                                     *)
(*   protocols        the registry Map, as a function on ProtocolIds       *)
(*                    (NoProtocol for a key that is not in the Map)        *)
(*   activeProtocols  the Map protocolId -> active step ids, as the        *)
(*                    sequence of its entries in insertion order, which is *)
(*                    the order a for-of loop visits them in               *)
(*   tasks            the calls suspended at an await                      *)
(*   now              the wall clock                                       *)
(*   emitted          the notifications the last run emitted, in order     *)
(*   dispatched       the executeAction calls the last run made, in order  *)
(*   visited          the entries of activeProtocols the for-of loop of    *)
(*                    evaluateProtocols came to in the last run, in order  *)
(*   lastCall         the external call that started the last run, NoCall  *)
(*                    when the last run was a continuation                 *)
(*   ncalls           the number of external calls so far                  *)
(*   scenario         the definitions and contexts the caller uses         *)
(*   probe            input and output of a bare evaluateCondition call    *)
(***************************************************************************)
VARIABLES protocols, activeProtocols, tasks, now, emitted, dispatched, visited,
          lastCall, ncalls, scenario, probe

vars == <<protocols, activeProtocols, tasks, now, emitted, dispatched, visited,
          lastCall, ncalls, scenario, probe>>

ProtocolIds == {"p1", "p2", "roger-roger"}

Slots == 1..MaxTasks

\* ---- the Map activeProtocols ----
mapHas(m, id) == \E i \in 1..Len(m) : m[i].id = id

mapIndex(m, id) == IF mapHas(m, id) THEN CHOOSE i \in 1..Len(m) : m[i].id = id ELSE 0

\* this.activeProtocols.get(id) || []
mapGet(m, id) == IF mapHas(m, id) THEN m[mapIndex(m, id)].steps ELSE <<>>

\* set keeps the position of a key that is present and appends a new one
mapSet(m, id, steps) ==
    IF mapHas(m, id) THEN [m EXCEPT ![mapIndex(m, id)].steps = steps]
    ELSE Append(m, [id |-> id, steps |-> steps])

mapDelete(m, id) == SelectSeq(m, LAMBDA entry : entry.id # id)

\* ---- suspended calls ----
\* kind "activate": activateProtocol awaiting its first step (line 301)
\* kind "step":     executeProtocolStep; pc is
\*     "snapshot"     updateSituationalAwareness awaits its three feeds (179)
\*     "returned"     executeAction has returned, the await of line 311 pends
\*     "threw"        executeAction has thrown, the catch of line 327 pends
\*     "progressing"  progressProtocol awaits the successors (347)
\* kind "pass":     evaluateProtocols awaiting the steps of one protocol
\*                  (442); idx is the number of entries its iterator passed
FreeTask ==
    [kind |-> "free", pc |-> "free", parent |-> 0, protocol |-> NoProtocol,
     step |-> 0, context |-> situationContext, idx |-> 0]

Task(kind, pc, parent, protocol, step, context) ==
    [kind |-> kind, pc |-> pc, parent |-> parent, protocol |-> protocol,
     step |-> step, context |-> context, idx |-> 0]

nextSlot(ts) ==
    IF \E i \in Slots : ts[i].kind = "free"
    THEN CHOOSE i \in Slots :
            /\ ts[i].kind = "free"
            /\ \A j \in 1..(i - 1) : ts[j].kind # "free"
    ELSE 0

hasChildren(ts, t) == \E i \in Slots : ts[i].kind # "free" /\ ts[i].parent = t

\* ---- one uninterrupted run works on a record e of the engine's state ----
Notification(type, id, step, complete) ==
    [type |-> type, id |-> id, step |-> step, complete |-> complete]

emit(e, notification) == [e EXCEPT !.emitted = Append(@, notification)]

\* A call that suspends takes a slot; overflow marks a run that would need
\* more than MaxTasks suspended calls.
suspend(e, slot, task) ==
    IF slot = 0 THEN [e EXCEPT !.overflow = TRUE]
    ELSE [e EXCEPT !.tasks[slot] = task]

settle(e, t) == [e EXCEPT !.tasks[t] = FreeTask]

\* executeAction up to its await: where its caller is left.
executeAction(action) ==
    CASE action = "mark_location" ->
            IF addTacticalElement("operations") = "ok" THEN "returned" ELSE "threw"
      [] action = "update_situation" -> "snapshot"
      [] OTHER -> "threw"

\* executeProtocolStep up to the await of line 311.
executeProtocolStep(e, parent, protocol, stepIndex, context) ==
    LET step == protocol.steps[stepIndex]
        call == [id |-> protocol.id, step |-> step.id, action |-> step.action]
        e1 == [e EXCEPT !.dispatched = Append(@, call)]
    IN  suspend(e1, nextSlot(e1.tasks),
                Task("step", executeAction(step.action), parent, protocol, stepIndex, context))

\* A fan-out that executes only the first of the ids.
executeEachFirstOnly(e, parent, protocol, ids, context) ==
    IF ids = <<>> \/ findStep(protocol, Head(ids)) = 0 THEN e
    ELSE executeProtocolStep(e, parent, protocol, findStep(protocol, Head(ids)), context)

\* A fan-out that leaves out a step of which an execution is in flight.
RECURSIVE executeEachOnce(_, _, _, _, _)
executeEachOnce(e, parent, protocol, ids, context) ==
    IF ids = <<>> THEN e
    ELSE LET i == findStep(protocol, Head(ids))
             inFlight == \E u \in DOMAIN e.tasks :
                             /\ e.tasks[u].kind = "step"
                             /\ e.tasks[u].protocol.id = protocol.id
                             /\ e.tasks[u].step = i
             e1 == IF i = 0 \/ inFlight THEN e
                   ELSE executeProtocolStep(e, parent, protocol, i, context)
         IN  executeEachOnce(e1, parent, protocol, Tail(ids), context)

\* ids.map(async id => { const step = protocol.steps.find(...);
\*                       if (step) await this.executeProtocolStep(...) })
RECURSIVE executeEach(_, _, _, _, _)
executeEach(e, parent, protocol, ids, context) ==
    IF ids = <<>> THEN e
    ELSE LET i == findStep(protocol, Head(ids))
             e1 == IF i = 0 THEN e
                   ELSE executeProtocolStep(e, parent, protocol, i, context)
         IN  executeEach(e1, parent, protocol, Tail(ids), context)

\* A progression that drops the entry once no step is left.
storeActiveStepsDropEmpty(m, protocolId, updatedSteps) ==
    IF updatedSteps = <<>> THEN mapDelete(m, protocolId)
    ELSE mapSet(m, protocolId, updatedSteps)

\* this.activeProtocols.set(protocol.id, updatedSteps)
storeActiveSteps(m, protocolId, updatedSteps) == mapSet(m, protocolId, updatedSteps)

\* A progression that holds the successors back while a sibling of the
\* completed step is in flight.
progressProtocolAfterSiblings(e, t) ==
    LET protocol == e.tasks[t].protocol
        currentStep == protocol.steps[e.tasks[t].step]
        activeSteps == mapGet(e.activeProtocols, protocol.id)
        updatedSteps == SelectSeq(activeSteps, LAMBDA id : id # currentStep.id)
                            \o currentStep.nextSteps
        e1 == [e EXCEPT !.activeProtocols = storeActiveSteps(@, protocol.id, updatedSteps),
                        !.tasks[t].pc = "progressing"]
        barrier == \E u \in DOMAIN e.tasks :
                       /\ u # t
                       /\ e.tasks[u].kind = "step"
                       /\ e.tasks[u].parent = e.tasks[t].parent
    IN  IF barrier THEN e1
        ELSE executeEach(e1, t, protocol, currentStep.nextSteps, e.tasks[t].context)

\* A progression that leaves the completed step among the active steps.
progressProtocolKeepsStep(e, t) ==
    LET protocol == e.tasks[t].protocol
        currentStep == protocol.steps[e.tasks[t].step]
        updatedSteps == mapGet(e.activeProtocols, protocol.id) \o currentStep.nextSteps
        e1 == [e EXCEPT !.activeProtocols = storeActiveSteps(@, protocol.id, updatedSteps),
                        !.tasks[t].pc = "progressing"]
    IN  executeEach(e1, t, protocol, currentStep.nextSteps, e.tasks[t].context)

\* progressProtocol up to the await of line 347, called by the step call t.
progressProtocol(e, t) ==
    LET protocol == e.tasks[t].protocol
        currentStep == protocol.steps[e.tasks[t].step]
        activeSteps == mapGet(e.activeProtocols, protocol.id)
        updatedSteps == SelectSeq(activeSteps, LAMBDA id : id # currentStep.id)
                            \o currentStep.nextSteps
        e1 == [e EXCEPT !.activeProtocols = storeActiveSteps(@, protocol.id, updatedSteps),
                        !.tasks[t].pc = "progressing"]
    IN  executeEach(e1, t, protocol, currentStep.nextSteps, e.tasks[t].context)

\* Deleting the entry at position k moves every iterator that has passed it.
deactivateProtocol(e, protocolId) ==
    LET k == mapIndex(e.activeProtocols, protocolId)
        e1 == IF k = 0 THEN e
              ELSE [e EXCEPT
                      !.activeProtocols = mapDelete(@, protocolId),
                      !.tasks = [i \in Slots |->
                                    IF @[i].kind = "pass" /\ @[i].idx >= k
                                    THEN [@[i] EXCEPT !.idx = @ - 1]
                                    ELSE @[i]]]
    IN  emit(e1, Notification("protocol:deactivated", protocolId, "", FALSE))

\* The for-of loop of evaluateProtocols, run by the pass t from where its
\* iterator stands up to the next await of line 442 or to the loop's end.
RECURSIVE evaluateLoop(_, _, _)
evaluateLoop(e, t, clock) ==
    LET idx == e.tasks[t].idx
    IN  IF idx >= Len(e.activeProtocols) THEN settle(e, t)
        ELSE LET entry == e.activeProtocols[idx + 1]
                 protocol == e.protocols[entry.id]
                 e1 == [e EXCEPT !.tasks[t].idx = idx + 1,
                                 !.visited = Append(@, entry)]
             IN  IF protocol = NoProtocol THEN evaluateLoop(e1, t, clock)
                 ELSE IF ~everyCondition(protocol.conditions, situationContext, clock)
                 THEN evaluateLoop(deactivateProtocol(e1, entry.id), t, clock)
                 ELSE executeEach(e1, t, protocol, entry.steps, situationContext)

\* evaluateProtocols as the listener of 'situation:updated' calls it.
evaluateProtocols(e, clock) ==
    LET t == nextSlot(e.tasks)
    IN  IF t = 0 THEN [e EXCEPT !.overflow = TRUE]
        ELSE evaluateLoop(suspend(e, t, Task("pass", "awaiting", 0, NoProtocol, 0, situationContext)),
                          t, clock)

\* updateSituationalAwareness after its await: emit('situation:updated', ...)
\* calls the listener the engine's constructor registered.
updateSituationalAwareness(e, clock) == evaluateProtocols(e, clock)

\* A load that merges the steps of a new definition into a registered one.
loadProtocolMerges(e, protocol) ==
    LET old == e.protocols[protocol.id]
        merged == IF old = NoProtocol THEN protocol
                  ELSE Protocol(protocol.id, old.steps \o protocol.steps, protocol.conditions)
    IN  IF validateProtocol(protocol) # "ok" THEN e
        ELSE emit([e EXCEPT !.protocols[protocol.id] = merged],
                  Notification("protocol:loaded", protocol.id, "", FALSE))

\* loadProtocol
loadProtocol(e, protocol) ==
    IF validateProtocol(protocol) # "ok" THEN e
    ELSE emit([e EXCEPT !.protocols[protocol.id] = protocol],
              Notification("protocol:loaded", protocol.id, "", FALSE))

\* An activation check that lets an already active protocol through.
activationCheckActivePasses(e, protocolId, context, clock) ==
    IF e.protocols[protocolId] = NoProtocol THEN "NotFound"
    ELSE IF /\ ~mapHas(e.activeProtocols, protocolId)
            /\ ~everyCondition(e.protocols[protocolId].conditions, context, clock)
    THEN "ConditionsNotMet"
    ELSE "ok"

\* What activateProtocol throws before it changes anything, or "ok".
activationCheck(e, protocolId, context, clock) ==
    IF e.protocols[protocolId] = NoProtocol THEN "NotFound"
    ELSE IF ~everyCondition(e.protocols[protocolId].conditions, context, clock)
    THEN "ConditionsNotMet"
    ELSE "ok"

\* A seeding that leaves the entry of an already active protocol alone.
seedActiveStepsKeep(m, protocolId, protocol) ==
    IF mapHas(m, protocolId) THEN m
    ELSE mapSet(m, protocolId, <<protocol.steps[1].id>>)

\* const activeSteps = [protocol.steps[0].id];
\* this.activeProtocols.set(protocolId, activeSteps)
seedActiveSteps(m, protocolId, protocol) == mapSet(m, protocolId, <<protocol.steps[1].id>>)

\* activateProtocol up to the await of line 301.
activateProtocol(e, protocolId, context, clock) ==
    IF activationCheck(e, protocolId, context, clock) # "ok" THEN e
    ELSE LET protocol == e.protocols[protocolId]
             t == nextSlot(e.tasks)
             e1 == [e EXCEPT !.activeProtocols = seedActiveSteps(@, protocolId, protocol)]
             e2 == suspend(e1, t, Task("activate", "awaiting", 0, protocol, 1, context))
         IN  IF t = 0 THEN e2
             ELSE executeProtocolStep(e2, t, protocol, 1, context)

\* executeProtocolStep from the await of line 311 on, executeAction having
\* returned: completion check, then progression or the notification.
\* A completion check with some() in the place of every().
stepIsCompleteSome(step, context, clock) ==
    \/ ~step.hasCriteria
    \/ \E i \in 1..Len(step.criteria) : evaluateCondition(step.criteria[i], context, clock)

stepIsComplete(step, context, clock) ==
    ~step.hasCriteria \/ everyCondition(step.criteria, context, clock)

executeProtocolStepResume(e, t, clock) ==
    LET protocol == e.tasks[t].protocol
        step == protocol.steps[e.tasks[t].step]
    IN  IF stepIsComplete(step, e.tasks[t].context, clock)
        THEN progressProtocol(e, t)
        ELSE emit(settle(e, t), Notification("step:executed", protocol.id, step.id, FALSE))

\* ... from the await of line 319 on, every successor having finished.
executeProtocolStepFinish(e, t) ==
    LET protocol == e.tasks[t].protocol
        step == protocol.steps[e.tasks[t].step]
    IN  emit(settle(e, t), Notification("step:executed", protocol.id, step.id, TRUE))

\* A catch block that also takes the failed step out of the active steps.
executeProtocolStepCatchDropsStep(e, t) ==
    LET protocol == e.tasks[t].protocol
        step == protocol.steps[e.tasks[t].step]
        kept == SelectSeq(mapGet(e.activeProtocols, protocol.id), LAMBDA id : id # step.id)
    IN  emit(settle([e EXCEPT !.activeProtocols = mapSet(@, protocol.id, kept)], t),
             Notification("step:error", protocol.id, step.id, FALSE))

\* A catch block that throws the error on to the caller of the step.
executeProtocolStepCatchRethrows(e, t) ==
    LET protocol == e.tasks[t].protocol
        step == protocol.steps[e.tasks[t].step]
        parent == e.tasks[t].parent
        e1 == IF parent = 0 THEN settle(e, t) ELSE settle(settle(e, t), parent)
    IN  emit(e1, Notification("step:error", protocol.id, step.id, FALSE))

\* ... the catch block.
executeProtocolStepCatch(e, t) ==
    LET protocol == e.tasks[t].protocol
        step == protocol.steps[e.tasks[t].step]
    IN  emit(settle(e, t), Notification("step:error", protocol.id, step.id, FALSE))

\* An activation that notifies only if the action of its first step is one
\* executeAction carries out.
activateProtocolFinishUnlessFailed(e, t) ==
    LET protocol == e.tasks[t].protocol
    IN  IF executeAction(protocol.steps[1].action) = "threw" THEN settle(e, t)
        ELSE emit(settle(e, t),
                  Notification("protocol:activated", protocol.id, protocol.steps[1].id, FALSE))

\* activateProtocol from the await of line 301 on.
activateProtocolFinish(e, t) ==
    LET protocol == e.tasks[t].protocol
    IN  emit(settle(e, t),
             Notification("protocol:activated", protocol.id, protocol.steps[1].id, FALSE))

(***************************************************************************)
(* The definitions and activation contexts the caller uses.                *)
(***************************************************************************)
NoCriteria(id, action, nextSteps) == Step(id, action, nextSteps, FALSE, <<>>)

\* The worked example of the specification.
ExampleProtocol ==
    Protocol("p1",
             <<NoCriteria("s1", "mark_location", <<"s2">>),
               NoCriteria("s2", "update_situation", <<>>)>>,
             <<>>)

EmptyProtocol == Protocol("p1", <<>>, <<>>)

DanglingProtocol ==
    Protocol("p1",
             <<NoCriteria("s1", "mark_location", <<"s2">>),
               NoCriteria("s2", "mark_location", <<"s9">>)>>,
             <<>>)

\* s1 fans out to a and b, which share the successor c.
DiamondProtocol ==
    Protocol("p1",
             <<NoCriteria("s1", "mark_location", <<"a", "b">>),
               NoCriteria("a", "mark_location", <<"c">>),
               NoCriteria("b", "mark_location", <<"c">>),
               Step("c", "mark_location", <<>>, TRUE, <<>>)>>,
             <<>>)

\* The condition of the specification's example guards the protocol.
GuardedProtocol ==
    Protocol("p2",
             <<Step("g1", "mark_location", <<"g2">>, TRUE,
                    <<Cond("tactical", "contains", Num(9))>>),
               NoCriteria("g2", "mark_location", <<>>)>>,
             <<Cond("tactical", "greater", Num(5))>>)

\* TonyCore.loadCoreProtocols: neither action is one executeAction knows.
RogerRoger ==
    Protocol("roger-roger",
             <<NoCriteria("init-comm", "establish_communication", <<"confirm-receipt">>),
               NoCriteria("confirm-receipt", "verify_transmission", <<>>)>>,
             <<>>)

\* Active only while the clock reads less than 1.
TimedProtocol ==
    Protocol("p2",
             <<Step("t1", "mark_location", <<"t2">>, TRUE,
                    <<Cond("temporal", "greater", Num(0))>>),
               NoCriteria("t2", "transmit", <<>>)>>,
             <<Cond("temporal", "less", Num(1))>>)

\* w1 completes only in a context whose tactical list contains 9.
WaitingProtocol ==
    Protocol("p1",
             <<Step("w1", "mark_location", <<"w2">>, TRUE,
                    <<Cond("tactical", "contains", Num(9))>>),
               NoCriteria("w2", "mark_location", <<>>)>>,
             <<>>)

\* Another definition under the id of WaitingProtocol.
ReplacementProtocol ==
    Protocol("p1", <<NoCriteria("r1", "mark_location", <<>>)>>, <<>>)

\* m1 fans out to bad, whose action executeAction does not know, and good,
\* which completes and hands over to hold, which does not complete.
MixedProtocol ==
    Protocol("p1",
             <<NoCriteria("m1", "mark_location", <<"bad", "good">>),
               NoCriteria("bad", "transmit", <<>>),
               NoCriteria("good", "mark_location", <<"hold">>),
               Step("hold", "mark_location", <<>>, TRUE,
                    <<Cond("tactical", "contains", Num(5))>>)>>,
             <<>>)

\* k1 and k2 name each other; both complete whenever their action returns.
CyclicProtocol ==
    Protocol("p1",
             <<NoCriteria("k1", "mark_location", <<"k2">>),
               NoCriteria("k2", "mark_location", <<"k1">>)>>,
             <<>>)

\* Its only step asks for a situational update and completes only in a
\* context whose tactical list contains 9.
WatchProtocol ==
    Protocol("p1",
             <<Step("watch", "update_situation", <<>>, TRUE,
                    <<Cond("tactical", "contains", Num(9))>>)>>,
             <<>>)

\* Active in a context whose tactical list contains 9; its only step asks
\* for a situational update and completes only if the list contains 5.
BriefProtocol ==
    Protocol("p1",
             <<Step("u1", "update_situation", <<>>, TRUE,
                    <<Cond("tactical", "contains", Num(5))>>)>>,
             <<Cond("tactical", "contains", Num(9))>>)

\* d1 names its successor c twice.
TwiceProtocol ==
    Protocol("p1",
             <<NoCriteria("d1", "mark_location", <<"c", "c">>),
               NoCriteria("c", "mark_location", <<>>)>>,
             <<>>)

\* Active in a context whose tactical list contains 9; its only step asks
\* the collaborator for a situational update.
SignalProtocol ==
    Protocol("p2", <<NoCriteria("u1", "update_situation", <<>>)>>,
             <<Cond("tactical", "contains", Num(9))>>)

\* Every definition of at most MaxSteps steps with ids a and b, whose
\* successor lists name a, b or an id z that no step has.
GraphStepIds == {"a", "b"}

GraphSuccessors == {<<>>, <<"a">>, <<"b">>, <<"z">>, <<"a", "b">>}

GraphSteps ==
    {NoCriteria(id, "mark_location", nextSteps) :
        id \in GraphStepIds, nextSteps \in GraphSuccessors}

GraphProtocols ==
    {Protocol("p1", steps, <<>>) :
        steps \in UNION {[1..n -> GraphSteps] : n \in 0..MaxSteps}}

CtxEmpty == Ctx(Undefined, Undefined)
CtxThreat3 == Ctx(Undefined, Obj(3))
CtxThreat9 == Ctx(Undefined, Obj(9))
CtxList9 == Ctx(Undefined, Arr(<<9>>))

Scenarios == {"example", "fanout", "failing", "reload", "local", "twice",
              "cycle", "timed", "watch", "brief"}

Catalogue(s) ==
    CASE s = "example" -> {ExampleProtocol, EmptyProtocol, DanglingProtocol}
      [] s = "fanout" -> {DiamondProtocol}
      [] s = "timed" -> {TimedProtocol}
      [] s = "failing" -> {RogerRoger, GuardedProtocol}
      [] s = "reload" -> {WaitingProtocol, ReplacementProtocol}
      [] s = "local" -> {MixedProtocol, SignalProtocol}
      [] s = "twice" -> {TwiceProtocol}
      [] s = "cycle" -> {CyclicProtocol}
      [] s = "watch" -> {WatchProtocol}
      [] s = "brief" -> {BriefProtocol}
      [] s = "graphs" -> GraphProtocols

Contexts(s) ==
    CASE s = "example" -> {CtxEmpty}
      [] s = "fanout" -> {CtxEmpty}
      [] s = "timed" -> {CtxEmpty}
      [] s = "failing" -> {CtxThreat9, CtxList9}
      [] s = "reload" -> {CtxEmpty}
      [] s = "local" -> {CtxList9}
      [] s = "twice" -> {CtxEmpty}
      [] s = "cycle" -> {CtxEmpty}
      [] s = "watch" -> {CtxEmpty}
      [] s = "brief" -> {CtxList9}
      [] s = "graphs" -> {CtxEmpty}

(***************************************************************************)
(* Initial state: the engine as its constructor leaves it.                 *)
(***************************************************************************)
NoCall == [op |-> "none", id |-> "", protocol |-> NoProtocol, context |-> CtxEmpty,
           result |-> "none"]

Call(op, id, protocol, context, result) ==
    [op |-> op, id |-> id, protocol |-> protocol, context |-> context, result |-> result]

NoProbe == [condition |-> Cond("temporal", "equals", Undefined), context |-> CtxEmpty,
            result |-> "unevaluated"]

\* Inputs of a bare evaluateCondition call.
ProbeValues == {Undefined, Num(0), Num(5), Num(9)}

ProbeConditions ==
    {Cond(type, operator, value) :
        type \in {"environmental", "tactical", "temporal"},
        operator \in {"equals", "greater", "less", "contains"},
        value \in ProbeValues}

ProbeContexts ==
    {Ctx(environmental, tactical) :
        environmental \in {Undefined, Arr(<<5>>)},
        tactical \in {Undefined, Obj(3), Obj(9), Arr(<<9>>), Arr(<<3, 9>>)}}

InitEngine ==
    /\ protocols = [id \in ProtocolIds |-> NoProtocol]
    /\ activeProtocols = <<>>
    /\ tasks = [t \in Slots |-> FreeTask]
    /\ emitted = <<>>
    /\ dispatched = <<>>
    /\ visited = <<>>
    /\ lastCall = NoCall
    /\ ncalls = 0

Init ==
    /\ InitEngine
    /\ now = 0
    /\ scenario \in Scenarios
    /\ probe = NoProbe

(***************************************************************************)
(* Actions.                                                                *)
(***************************************************************************)
engine ==
    [protocols |-> protocols, activeProtocols |-> activeProtocols, tasks |-> tasks,
     emitted |-> <<>>, dispatched |-> <<>>, visited |-> <<>>, overflow |-> FALSE]

Commit(e) ==
    /\ ~e.overflow
    /\ protocols' = e.protocols
    /\ activeProtocols' = e.activeProtocols
    /\ tasks' = e.tasks
    /\ emitted' = e.emitted
    /\ dispatched' = e.dispatched
    /\ visited' = e.visited

External(call) ==
    /\ ncalls < MaxCalls
    /\ ncalls' = ncalls + 1
    /\ lastCall' = call
    /\ UNCHANGED <<now, scenario, probe>>

Internal ==
    /\ lastCall' = NoCall
    /\ UNCHANGED <<now, ncalls, scenario, probe>>

\* The caller loads a definition.
LoadProtocol ==
    \E protocol \in Catalogue(scenario) :
        /\ External(Call("loadProtocol", protocol.id, protocol, CtxEmpty,
                         validateProtocol(protocol)))
        /\ Commit(loadProtocol(engine, protocol))

\* The caller activates a protocol.
ActivateProtocol ==
    \E protocol \in Catalogue(scenario), context \in Contexts(scenario) :
        /\ External(Call("activateProtocol", protocol.id, NoProtocol, context,
                         activationCheck(engine, protocol.id, context, now)))
        /\ Commit(activateProtocol(engine, protocol.id, context, now))

\* updateSituationalAwareness called from outside the engine
\* (TonyCore.initializeCore), its feeds having answered.
SituationUpdated ==
    /\ External(Call("updateSituationalAwareness", "", NoProtocol, CtxEmpty, "ok"))
    /\ Commit(updateSituationalAwareness(engine, now))

\* The wall clock advances.
Tick ==
    /\ now < MaxNow
    /\ now' = now + 1
    /\ emitted' = <<>>
    /\ dispatched' = <<>>
    /\ visited' = <<>>
    /\ lastCall' = NoCall
    /\ UNCHANGED <<protocols, activeProtocols, tasks, ncalls, scenario, probe>>

\* A step's update_situation: the feeds have answered, the collaborator emits
\* 'situation:updated' and returns.
SnapshotReady ==
    \E t \in Slots :
        /\ tasks[t].kind = "step" /\ tasks[t].pc = "snapshot"
        /\ Commit(updateSituationalAwareness(
                      [engine EXCEPT !.tasks[t].pc = "returned"], now))
        /\ Internal

StepResume ==
    \E t \in Slots :
        /\ tasks[t].kind = "step" /\ tasks[t].pc = "returned"
        /\ Commit(executeProtocolStepResume(engine, t, now))
        /\ Internal

StepCatch ==
    \E t \in Slots :
        /\ tasks[t].kind = "step" /\ tasks[t].pc = "threw"
        /\ Commit(executeProtocolStepCatch(engine, t))
        /\ Internal

StepFinish ==
    \E t \in Slots :
        /\ tasks[t].kind = "step" /\ tasks[t].pc = "progressing"
        /\ ~hasChildren(tasks, t)
        /\ Commit(executeProtocolStepFinish(engine, t))
        /\ Internal

ActivateFinish ==
    \E t \in Slots :
        /\ tasks[t].kind = "activate"
        /\ ~hasChildren(tasks, t)
        /\ Commit(activateProtocolFinish(engine, t))
        /\ Internal

PassResume ==
    \E t \in Slots :
        /\ tasks[t].kind = "pass"
        /\ ~hasChildren(tasks, t)
        /\ Commit(evaluateLoop(engine, t, now))
        /\ Internal

\* deactivateProtocol called from outside the engine.
DeactivateProtocol ==
    \E protocol \in Catalogue(scenario) :
        /\ External(Call("deactivateProtocol", protocol.id, NoProtocol, CtxEmpty, "ok"))
        /\ Commit(deactivateProtocol(engine, protocol.id))

Next ==
    \/ LoadProtocol
    \/ ActivateProtocol
    \/ SituationUpdated
    \/ Tick
    \/ SnapshotReady
    \/ StepResume
    \/ StepCatch
    \/ StepFinish
    \/ ActivateFinish
    \/ PassResume

Spec == Init /\ [][Next]_vars

\* A bare call of the condition evaluator.
InitEval ==
    /\ InitEngine
    /\ now \in 0..MaxNow
    /\ scenario = "example"
    /\ probe \in [condition : ProbeConditions, context : ProbeContexts,
                   result : {"unevaluated"}]

Evaluate ==
    /\ probe.result = "unevaluated"
    /\ probe' = [probe EXCEPT !.result =
                    IF evaluateCondition(probe.condition, probe.context, now)
                    THEN "true" ELSE "false"]
    /\ UNCHANGED <<protocols, activeProtocols, tasks, now, emitted, dispatched, visited,
                   lastCall, ncalls, scenario>>

NextEval == Evaluate

SpecEval == InitEval /\ [][NextEval]_vars

\* The first loadProtocol call on a new engine, for every enumerated
\* definition.
InitLoad ==
    /\ InitEngine
    /\ now = 0
    /\ scenario = "graphs"
    /\ probe = NoProbe

LoadGraph ==
    /\ ncalls = 0
    /\ LoadProtocol

NextLoad == LoadGraph

SpecLoad == InitLoad /\ [][NextLoad]_vars

\* The engine with deactivateProtocol open to its caller, as the interface
\* of the specification has it.
NextApi == Next \/ DeactivateProtocol

SpecApi == Init /\ [][NextApi]_vars

(***************************************************************************)
(* Claims.                                                                 *)
(***************************************************************************)
StepIds(protocol) == {protocol.steps[i].id : i \in 1..Len(protocol.steps)}

HasDanglingReference(protocol) ==
    \E i \in 1..Len(protocol.steps) :
        \E j \in 1..Len(protocol.steps[i].nextSteps) :
            protocol.steps[i].nextSteps[j] \notin StepIds(protocol)

\* C1: loadProtocol of a protocol without steps, or with a step whose
\* nextSteps names an id that no step of the protocol has, fails; the
\* registry is what it was before the call and nothing is emitted.
C1_LoadRejected ==
    [][(/\ lastCall'.op = "loadProtocol"
        /\ \/ Len(lastCall'.protocol.steps) = 0
           \/ HasDanglingReference(lastCall'.protocol))
       => /\ lastCall'.result = "StructuralError"
          /\ protocols' = protocols
          /\ emitted' = <<>>]_vars

\* A definition with a dangling reference has just been refused while another
\* definition is registered under the same id.
C1_Witness ==
    /\ lastCall.op = "loadProtocol"
    /\ lastCall.result = "StructuralError"
    /\ HasDanglingReference(lastCall.protocol)
    /\ protocols[lastCall.id] = ExampleProtocol

SomeConditionFalse(protocol, context, clock) ==
    \E i \in 1..Len(protocol.conditions) :
        ~evaluateCondition(protocol.conditions[i], context, clock)

ActivationFailed(id, context) ==
    \/ protocols[id] = NoProtocol
    \/ SomeConditionFalse(protocols[id], context, now)

\* C2 as stated: an unknown id yields NotFound; a known protocol with a false
\* activation condition yields ConditionsNotMet and the protocol has no
\* active-step set afterwards; a failed activation dispatches no step and
\* emits nothing.
C2_Original ==
    [][lastCall'.op = "activateProtocol"
       => /\ protocols[lastCall'.id] = NoProtocol => lastCall'.result = "NotFound"
          /\ (/\ protocols[lastCall'.id] # NoProtocol
              /\ SomeConditionFalse(protocols[lastCall'.id], lastCall'.context, now))
             => /\ lastCall'.result = "ConditionsNotMet"
                /\ ~mapHas(activeProtocols', lastCall'.id)
          /\ ActivationFailed(lastCall'.id, lastCall'.context)
             => dispatched' = <<>> /\ emitted' = <<>>]_vars

\* C2 as amended: ... yields ConditionsNotMet and leaves activeProtocols, the
\* registry and the suspended calls exactly as they were, so that the
\* active-step set is absent if the protocol was not active before the call.
C2_ActivationRefused ==
    [][lastCall'.op = "activateProtocol"
       => /\ protocols[lastCall'.id] = NoProtocol => lastCall'.result = "NotFound"
          /\ (/\ protocols[lastCall'.id] # NoProtocol
              /\ SomeConditionFalse(protocols[lastCall'.id], lastCall'.context, now))
             => lastCall'.result = "ConditionsNotMet"
          /\ ActivationFailed(lastCall'.id, lastCall'.context)
             => /\ activeProtocols' = activeProtocols
                /\ protocols' = protocols
                /\ tasks' = tasks
                /\ dispatched' = <<>>
                /\ emitted' = <<>>]_vars

\* An activation has just been refused for a protocol that is active and has
\* a call in flight.
C2_Witness ==
    /\ lastCall.op = "activateProtocol"
    /\ lastCall.result = "ConditionsNotMet"
    /\ mapHas(activeProtocols, lastCall.id)
    /\ \E t \in Slots : tasks[t].kind = "step" /\ tasks[t].protocol.id = lastCall.id

\* C3: when activateProtocol has passed its checks, the protocol's active-step
\* set is exactly [id of the first declared step] at the point where the
\* first step's action has been dispatched and nothing else has happened:
\* that action is the only one dispatched, no notification has been emitted.
C3_ActivationSeedsFirstStep ==
    [][(lastCall'.op = "activateProtocol" /\ lastCall'.result = "ok")
       => LET protocol == protocols[lastCall'.id]
          IN  /\ mapHas(activeProtocols', protocol.id)
              /\ mapGet(activeProtocols', protocol.id) = <<protocol.steps[1].id>>
              /\ dispatched' = <<[id |-> protocol.id, step |-> protocol.steps[1].id,
                                  action |-> protocol.steps[1].action]>>
              /\ emitted' = <<>>
              /\ protocols' = protocols]_vars

\* An activation has just succeeded for a protocol whose earlier activation
\* had moved on to the second step.
C3_Witness ==
    /\ lastCall.op = "activateProtocol"
    /\ lastCall.result = "ok"
    /\ \E t \in Slots :
          /\ tasks[t].kind = "step"
          /\ tasks[t].protocol.id = lastCall.id
          /\ tasks[t].step = 2

StepOf(task) == task.protocol.steps[task.step]

\* The step call in slot t has run in this step of the behaviour.
StepCallRan(t) == tasks[t].kind = "step" /\ tasks'[t] # tasks[t]

Progressed(t) == tasks'[t].kind = "step" /\ tasks'[t].pc = "progressing"

\* C4: a step execution triggers progression, and is reported with the
\* completion flag true, iff its action dispatch succeeded and every one of
\* its completion conditions holds in its context; with absent or empty
\* criteria a successful dispatch always counts as complete.
C4_StepCompletion ==
    [][\A t \in Slots : StepCallRan(t) =>
          LET step == StepOf(tasks[t])
              id == tasks[t].protocol.id
              criteriaHold ==
                  \A i \in 1..Len(step.criteria) :
                      evaluateCondition(step.criteria[i], tasks[t].context, now)
          IN  CASE tasks[t].pc = "returned" ->
                      /\ Progressed(t) <=> criteriaHold
                      /\ (~step.hasCriteria \/ step.criteria = <<>>) => Progressed(t)
                      /\ Progressed(t) => emitted' = <<>>
                      /\ ~Progressed(t) =>
                            /\ tasks'[t] = FreeTask
                            /\ activeProtocols' = activeProtocols
                            /\ dispatched' = <<>>
                            /\ emitted' = <<Notification("step:executed", id, step.id, FALSE)>>
                [] tasks[t].pc = "threw" ->
                      /\ ~Progressed(t)
                      /\ \A i \in 1..Len(emitted') : emitted'[i].type # "step:executed"
                [] tasks[t].pc = "progressing" ->
                      emitted' = <<Notification("step:executed", id, step.id, TRUE)>>
                [] OTHER -> TRUE]_vars

\* A step with a completion condition that holds in its context has
\* progressed.
C4_Witness ==
    \E t \in Slots :
        /\ tasks[t].kind = "step"
        /\ tasks[t].pc = "progressing"
        /\ StepOf(tasks[t]).criteria # <<>>

Occurrences(seq, x) == Cardinality({i \in 1..Len(seq) : seq[i] = x})

DispatchOf(protocol, stepId) ==
    [id |-> protocol.id, step |-> stepId,
     action |-> protocol.steps[findStep(protocol, stepId)].action]

\* C5: a progression event dispatches the action of each successor as often
\* as nextSteps names it, so for successors [a,b] once each, and dispatches
\* nothing else; each dispatch is a call of its own, awaited by the
\* progressing step.
C5_FanOut ==
    [][\A t \in Slots :
          (StepCallRan(t) /\ tasks[t].pc = "returned" /\ Progressed(t)) =>
             LET protocol == tasks[t].protocol
                 nextSteps == StepOf(tasks[t]).nextSteps
                 started == {u \in Slots : /\ tasks[u].kind = "free"
                                           /\ tasks'[u].kind = "step"
                                           /\ tasks'[u].parent = t}
             IN  /\ Len(dispatched') = Len(nextSteps)
                 /\ \A k \in 1..Len(nextSteps) :
                       Occurrences(dispatched', DispatchOf(protocol, nextSteps[k]))
                          = Occurrences(nextSteps, nextSteps[k])
                 /\ Cardinality(started) = Len(nextSteps)
                 /\ \A k \in 1..Len(nextSteps) :
                       \E u \in started :
                          /\ tasks'[u].protocol = protocol
                          /\ StepOf(tasks'[u]).id = nextSteps[k]]_vars

\* Of the successors [a,b] of a progressing step, b has run on and progressed
\* while a is still where its dispatch left it.
C5_Witness ==
    \E t, ta, tb \in Slots :
        /\ tasks[t].kind = "step" /\ tasks[t].pc = "progressing"
        /\ StepOf(tasks[t]).nextSteps = <<"a", "b">>
        /\ tasks[ta].kind = "step" /\ tasks[ta].parent = t
        /\ StepOf(tasks[ta]).id = "a" /\ tasks[ta].pc = "returned"
        /\ tasks[tb].kind = "step" /\ tasks[tb].parent = t
        /\ StepOf(tasks[tb]).id = "b" /\ tasks[tb].pc = "progressing"

Deactivated(id) == Notification("protocol:deactivated", id, "", FALSE)

\* C6 as stated: the second of two deactivateProtocol calls in a row for the
\* same id leaves the state as the first left it (no entry) and emits no
\* notification.
C6_Original ==
    [][(/\ lastCall.op = "deactivateProtocol"
        /\ lastCall'.op = "deactivateProtocol"
        /\ lastCall'.id = lastCall.id)
       => /\ activeProtocols' = activeProtocols
          /\ ~mapHas(activeProtocols', lastCall'.id)
          /\ emitted' = <<>>]_vars

\* C7: the entry of a protocol leaves activeProtocols only in a run of the
\* re-evaluation loop that visits it, finds one of its conditions false and
\* notifies 'deactivated'; in particular a progression that leaves no active
\* step keeps the entry.
C7_EntryOutlivesItsSteps ==
    [][\A id \in ProtocolIds :
          (mapHas(activeProtocols, id) /\ ~mapHas(activeProtocols', id)) =>
             /\ \E i \in 1..Len(visited') : visited'[i].id = id
             /\ SomeConditionFalse(protocols[id], situationContext, now)
             /\ \E i \in 1..Len(emitted') : emitted'[i] = Deactivated(id)]_vars

\* The example protocol has run to its end: no call is in flight, its entry
\* is present and holds no step.
C7_Witness ==
    /\ protocols["p1"] = ExampleProtocol
    /\ activeProtocols = <<[id |-> "p1", steps |-> <<>>]>>
    /\ \A t \in Slots : tasks[t] = FreeTask

\* C8 as stated: {tactical, greater, 5} is false against {tactical:{threat:3}},
\* true against {tactical:{threat:9}} and false against {}.
C8_Original ==
    (/\ probe.condition = Cond("tactical", "greater", Num(5))
     /\ probe.result # "unevaluated")
    => /\ probe.context = CtxThreat3 => probe.result = "false"
       /\ probe.context = CtxThreat9 => probe.result = "true"
       /\ probe.context = CtxEmpty => probe.result = "false"

\* C9 as stated: for every entry the re-evaluation loop visits, if a condition
\* of its protocol is false against the update's context the entry is removed,
\* 'deactivated' is notified and no step of the protocol is dispatched in the
\* run; otherwise every step id of the entry is dispatched.
C9_Original ==
    [][\A i \in 1..Len(visited') :
          LET entry == visited'[i]
              protocol == protocols[entry.id]
          IN  protocol # NoProtocol =>
                IF SomeConditionFalse(protocol, situationContext, now)
                THEN /\ ~mapHas(activeProtocols', entry.id)
                     /\ \E j \in 1..Len(emitted') : emitted'[j] = Deactivated(entry.id)
                     /\ \A j \in 1..Len(dispatched') : dispatched'[j].id # entry.id
                ELSE \A k \in 1..Len(entry.steps) :
                        \E j \in 1..Len(dispatched') :
                            /\ dispatched'[j].id = entry.id
                            /\ dispatched'[j].step = entry.steps[k]]_vars

\* C10: the catch of a failed dispatch emits step-error and nothing else,
\* changes no active-step set and starts no call (no completion check, no
\* progression); and a re-evaluation run that visits a protocol whose
\* conditions hold dispatches again every step of the entry whose action
\* fails, as a call awaited by the pass.
C10_FailedDispatch ==
    [][/\ \A t \in Slots :
             (StepCallRan(t) /\ tasks[t].pc = "threw") =>
                /\ emitted' = <<Notification("step:error", tasks[t].protocol.id,
                                             StepOf(tasks[t]).id, FALSE)>>
                /\ activeProtocols' = activeProtocols
                /\ dispatched' = <<>>
                /\ tasks' = [tasks EXCEPT ![t] = FreeTask]
       /\ \A i \in 1..Len(visited') :
             LET entry == visited'[i]
                 protocol == protocols[entry.id]
             IN  (/\ protocol # NoProtocol
                  /\ ~SomeConditionFalse(protocol, situationContext, now)) =>
                    \A k \in 1..Len(entry.steps) :
                       LET s == findStep(protocol, entry.steps[k])
                       IN  (s # 0 /\ executeAction(protocol.steps[s].action) = "threw") =>
                              /\ mapHas(activeProtocols', entry.id)
                              /\ \E j \in 1..Len(dispatched') :
                                    dispatched'[j] = DispatchOf(protocol, entry.steps[k])
                              /\ \E u \in Slots :
                                    /\ tasks'[u].kind = "step" /\ tasks'[u].pc = "threw"
                                    /\ tasks'[u].protocol = protocol /\ tasks'[u].step = s
                                    /\ tasks'[tasks'[u].parent].kind = "pass"]_vars

\* A step whose action fails has been dispatched again by a re-evaluation
\* pass, the activation that first dispatched it having finished.
C10_Witness ==
    /\ \E t \in Slots :
          /\ tasks[t].kind = "step" /\ tasks[t].pc = "threw"
          /\ tasks[tasks[t].parent].kind = "pass"
          /\ mapGet(activeProtocols, tasks[t].protocol.id) = <<StepOf(tasks[t]).id>>
    /\ \A t \in Slots : tasks[t].kind # "activate"

\* C11: the catch of a failed dispatch leaves every other suspended call as it
\* was, the siblings of the failed step, the call that awaits them and the
\* calls of other protocols included; and a re-evaluation pass ends only in a
\* run of its own loop that has come to every entry after the ones it had
\* passed, whatever became of the steps it dispatched.
C11_FailureIsLocal ==
    [][/\ \A t \in Slots :
             (StepCallRan(t) /\ tasks[t].pc = "threw") =>
                /\ \A u \in Slots \ {t} : tasks'[u] = tasks[u]
                /\ activeProtocols' = activeProtocols
                /\ protocols' = protocols
       /\ \A t \in Slots :
             (tasks[t].kind = "pass" /\ tasks'[t].kind # "pass") =>
                /\ ~hasChildren(tasks, t)
                /\ tasks'[t] = FreeTask
                /\ \A i \in (tasks[t].idx + 1)..Len(activeProtocols) :
                      \E j \in 1..Len(visited') : visited'[j] = activeProtocols[i]]_vars

\* A pass has dispatched bad and hold of p1 and bad has failed: the pass
\* still awaits hold, and the entry of p2 is still to come.
C11_Witness ==
    /\ activeProtocols = <<[id |-> "p1", steps |-> <<"bad", "hold">>],
                           [id |-> "p2", steps |-> <<"u1">>]>>
    /\ \E t \in Slots :
          /\ tasks[t].kind = "pass" /\ tasks[t].idx = 1
          /\ \E u \in Slots :
                /\ tasks[u].kind = "step" /\ tasks[u].parent = t
                /\ StepOf(tasks[u]).id = "hold"
          /\ \A u \in Slots :
                (tasks[u].kind = "step" /\ tasks[u].parent = t)
                   => StepOf(tasks[u]).id # "bad"

FirstStepFails(protocol) == executeAction(protocol.steps[1].action) = "threw"

\* C12: activateProtocol of a registered protocol whose conditions hold is
\* accepted also when the action of its first step fails; the failure of a
\* step that an activation awaits is notified as step-error and as nothing
\* else, and leaves the activation and activeProtocols as they were; the
\* activation then ends by notifying 'activated', again without a change of
\* activeProtocols, so that the protocol's active steps are still the first
\* step alone.
C12_ActivationSurvivesStepFailure ==
    [][/\ (/\ lastCall'.op = "activateProtocol"
            /\ protocols[lastCall'.id] # NoProtocol
            /\ ~SomeConditionFalse(protocols[lastCall'.id], lastCall'.context, now))
           => lastCall'.result = "ok"
       /\ \A t \in Slots :
             (/\ StepCallRan(t) /\ tasks[t].pc = "threw"
              /\ tasks[tasks[t].parent].kind = "activate") =>
                /\ emitted' = <<Notification("step:error", tasks[t].protocol.id,
                                             StepOf(tasks[t]).id, FALSE)>>
                /\ tasks'[tasks[t].parent] = tasks[tasks[t].parent]
                /\ activeProtocols' = activeProtocols
       /\ \A t \in Slots :
             (tasks[t].kind = "activate" /\ tasks'[t].kind # "activate") =>
                LET protocol == tasks[t].protocol
                IN  /\ emitted' = <<Notification("protocol:activated", protocol.id,
                                                 protocol.steps[1].id, FALSE)>>
                    /\ activeProtocols' = activeProtocols
                    /\ (FirstStepFails(protocol) /\ protocols[protocol.id] = protocol)
                          => mapGet(activeProtocols', protocol.id)
                                = <<protocol.steps[1].id>>]_vars

\* The activation of roger-roger, whose first action executeAction does not
\* know, has just notified 'activated'.
C12_Witness ==
    /\ emitted = <<Notification("protocol:activated", "roger-roger", "init-comm", FALSE)>>
    /\ mapGet(activeProtocols, "roger-roger") = <<"init-comm">>
    /\ \A t \in Slots : tasks[t].kind # "activate"

\* C13 as stated: every step execution, when it ends, has notified
\* step-executed with its protocol id and step id, whether its dispatch
\* succeeded or failed.
C13_Original ==
    [][\A t \in Slots :
          (tasks[t].kind = "step" /\ tasks'[t].kind = "free") =>
             \E i \in 1..Len(emitted') :
                /\ emitted'[i].type = "step:executed"
                /\ emitted'[i].id = tasks[t].protocol.id
                /\ emitted'[i].step = StepOf(tasks[t]).id]_vars

\* C14 as stated: a protocol that has no entry in activeProtocols gets one
\* only in the run of an activateProtocol call for its id that is accepted,
\* whatever step executions are still in flight.
C14_Original ==
    [][\A id \in ProtocolIds :
          (~mapHas(activeProtocols, id) /\ mapHas(activeProtocols', id)) =>
             /\ lastCall'.op = "activateProtocol"
             /\ lastCall'.id = id
             /\ lastCall'.result = "ok"]_vars

\* C15 as stated: a run of the re-evaluation loop dispatches no step of a
\* protocol of which an execution of that same step is in flight when the
\* run begins, so that no step is in flight twice.
C15_Original ==
    [][visited' # <<>> =>
          \A j \in 1..Len(dispatched') :
             ~\E u \in Slots :
                 /\ tasks[u].kind = "step"
                 /\ tasks[u].protocol.id = dispatched'[j].id
                 /\ StepOf(tasks[u]).id = dispatched'[j].step
                 /\ tasks'[u].kind = "step"]_vars

\* C16 as stated: in every reachable state the active steps stored for a
\* protocol hold no step id more than once.
C16_Original ==
    \A i \in 1..Len(activeProtocols) :
        \A j, k \in 1..Len(activeProtocols[i].steps) :
            j # k => activeProtocols[i].steps[j] # activeProtocols[i].steps[k]

Range(seq) == {seq[i] : i \in 1..Len(seq)}

\* C17: the run in which a completed step s of protocol P progresses changes
\* P's active steps A into A without s followed by nextSteps(s), as a set
\* (A \ {s}) \cup nextSteps(s), and only then dispatches: every successor
\* it has dispatched is among the active steps it leaves.  With no successor
\* A only loses s.  The entries of all other protocols and the registry are
\* as they were.
C17_Progression ==
    [][\A t \in Slots :
          (StepCallRan(t) /\ tasks[t].pc = "returned" /\ Progressed(t)) =>
             LET P == tasks[t].protocol
                 s == StepOf(tasks[t])
                 A == mapGet(activeProtocols, P.id)
                 updated == mapGet(activeProtocols', P.id)
             IN  /\ mapHas(activeProtocols', P.id)
                 /\ updated = SelectSeq(A, LAMBDA id : id # s.id) \o s.nextSteps
                 /\ Range(updated) = (Range(A) \ {s.id}) \cup Range(s.nextSteps)
                 /\ s.nextSteps = <<>> => Range(updated) = Range(A) \ {s.id}
                 /\ \A j \in 1..Len(dispatched') :
                       /\ dispatched'[j].id = P.id
                       /\ dispatched'[j].step \in Range(updated)
                 /\ \A id \in ProtocolIds \ {P.id} :
                       /\ mapHas(activeProtocols', id) <=> mapHas(activeProtocols, id)
                       /\ mapGet(activeProtocols', id) = mapGet(activeProtocols, id)
                 /\ protocols' = protocols]_vars

\* good has progressed out of the active steps [bad, good] of p1, which now
\* hold its successor in its place, while p2 has an entry.
C17_Witness ==
    /\ mapGet(activeProtocols, "p1") = <<"bad", "hold">>
    /\ mapHas(activeProtocols, "p2")
    /\ \E t \in Slots :
          /\ tasks[t].kind = "step" /\ tasks[t].pc = "progressing"
          /\ tasks[t].protocol = MixedProtocol
          /\ StepOf(tasks[t]).id = "good"

\* C18: an id that is in the registry stays in it; the definition stored
\* under an id changes only in an accepted loadProtocol call for that id; and
\* an accepted loadProtocol stores exactly the definition it was given under
\* its id, in the place of whatever was stored there, and leaves the rest of
\* the registry, activeProtocols and the calls in flight as they were.
C18_Registry ==
    [][/\ \A id \in ProtocolIds :
             /\ protocols[id] # NoProtocol => protocols'[id] # NoProtocol
             /\ protocols'[id] # protocols[id] =>
                   /\ lastCall'.op = "loadProtocol"
                   /\ lastCall'.id = id
                   /\ lastCall'.result = "ok"
       /\ (lastCall'.op = "loadProtocol" /\ lastCall'.result = "ok") =>
             /\ protocols' = [protocols EXCEPT ![lastCall'.id] = lastCall'.protocol]
             /\ activeProtocols' = activeProtocols
             /\ tasks' = tasks]_vars

\* A second definition has just been loaded under the id of an active
\* protocol, whose active step is one of the first definition.
C18_Witness ==
    /\ lastCall.op = "loadProtocol"
    /\ lastCall.result = "ok"
    /\ protocols["p1"] = ReplacementProtocol
    /\ mapGet(activeProtocols, "p1") = <<"w1">>

HasDuplicateStepIds(protocol) ==
    \E i, j \in 1..Len(protocol.steps) :
        i # j /\ protocol.steps[i].id = protocol.steps[j].id

\* Step i names step j as a successor.
Names(protocol, i, j) == protocol.steps[j].id \in Range(protocol.steps[i].nextSteps)

\* C19: loadProtocol refuses a definition iff it has no step or some
\* nextSteps names an id that no step has; every other definition, cyclic,
\* with unreachable steps or with duplicate step ids, is stored as given and
\* notified 'loaded'; a refused one changes nothing and notifies nothing;
\* and no load touches activeProtocols or starts a call.
C19_ValidationAccepts ==
    [][lastCall'.op = "loadProtocol" =>
          LET protocol == lastCall'.protocol
              refused == Len(protocol.steps) = 0 \/ HasDanglingReference(protocol)
          IN  /\ lastCall'.result = IF refused THEN "StructuralError" ELSE "ok"
              /\ ~refused =>
                    /\ protocols' = [protocols EXCEPT ![protocol.id] = protocol]
                    /\ emitted' = <<Notification("protocol:loaded", protocol.id, "", FALSE)>>
              /\ refused => protocols' = protocols /\ emitted' = <<>>
              /\ activeProtocols' = activeProtocols
              /\ tasks' = tasks
              /\ dispatched' = <<>>]_vars

\* A definition has been stored that has two steps of the same id, the first
\* naming itself, the second out of reach.
C19_Witness ==
    /\ lastCall.op = "loadProtocol"
    /\ lastCall.result = "ok"
    /\ protocols["p1"] = lastCall.protocol
    /\ Len(lastCall.protocol.steps) = 2
    /\ HasDuplicateStepIds(lastCall.protocol)
    /\ Names(lastCall.protocol, 1, 1)
    /\ lastCall.protocol.steps[2].nextSteps = <<>>

\* The one call the call in slot t awaits, 0 if it awaits none or several.
OnlyChild(t) ==
    IF Cardinality({u \in Slots : tasks[u].kind # "free" /\ tasks[u].parent = t}) = 1
    THEN CHOOSE u \in Slots : tasks[u].kind # "free" /\ tasks[u].parent = t
    ELSE 0

\* C20: of the protocol whose steps k1 and k2 name each other, every
\* activation in flight awaits an execution of k1, every execution that has
\* progressed awaits an execution of the other step, and every other
\* execution is one whose dispatch has returned and which will progress in
\* its turn: no execution and no activation of the protocol ever comes to
\* its end, and neither 'activated' nor step-executed is ever notified.
C20_CycleNeverEnds ==
    /\ \A t \in Slots :
          (tasks[t].kind = "activate" /\ tasks[t].protocol = CyclicProtocol) =>
             /\ OnlyChild(t) # 0
             /\ tasks[OnlyChild(t)].kind = "step"
             /\ StepOf(tasks[OnlyChild(t)]).id = "k1"
    /\ \A t \in Slots :
          (tasks[t].kind = "step" /\ tasks[t].protocol = CyclicProtocol) =>
             \/ tasks[t].pc = "returned"
             \/ /\ tasks[t].pc = "progressing"
                /\ OnlyChild(t) # 0
                /\ tasks[OnlyChild(t)].kind = "step"
                /\ tasks[OnlyChild(t)].protocol = CyclicProtocol
                /\ <<StepOf(tasks[OnlyChild(t)]).id>> = StepOf(tasks[t]).nextSteps
    /\ scenario = "cycle" =>
          \A i \in 1..Len(emitted) :
             emitted[i].type \notin {"protocol:activated", "step:executed"}

\* With no call from outside but the activation, k1 has been dispatched,
\* has progressed to k2, which has progressed to k1 again.
C20_Witness ==
    /\ ncalls = 2
    /\ \E a, t, u, v \in Slots :
          /\ tasks[a].kind = "activate" /\ tasks[a].protocol = CyclicProtocol
          /\ tasks[t].kind = "step" /\ tasks[t].parent = a
          /\ tasks[t].pc = "progressing" /\ StepOf(tasks[t]).id = "k1"
          /\ tasks[u].kind = "step" /\ tasks[u].parent = t
          /\ tasks[u].pc = "progressing" /\ StepOf(tasks[u]).id = "k2"
          /\ tasks[v].kind = "step" /\ tasks[v].parent = u
          /\ StepOf(tasks[v]).id = "k1"

\* C21 as stated: passes start only with a situational update from outside,
\* and the update a step asks for does not set off a pass that dispatches
\* that step again.  Here for the least case that shows a loop: no update
\* has come from outside (the two calls so far are the load and the
\* activation), the execution is one a pass has dispatched, and the answer
\* to its update dispatches its step once more.
C21_Original ==
    [][\A t \in Slots :
          (/\ ncalls = 2
           /\ tasks[t].kind = "step" /\ tasks[t].pc = "snapshot"
           /\ tasks[tasks[t].parent].kind = "pass"
           /\ tasks'[t].kind = "step" /\ tasks'[t].pc = "returned") =>
             \A j \in 1..Len(dispatched') :
                dispatched'[j] # DispatchOf(tasks[t].protocol, StepOf(tasks[t]).id)]_vars

\* The dispatches a progression of the step makes: one for each successor
\* that names a step of the protocol, in the order of nextSteps.
RECURSIVE SuccessorDispatches(_, _)
SuccessorDispatches(protocol, ids) ==
    IF ids = <<>> THEN <<>>
    ELSE (IF findStep(protocol, Head(ids)) = 0 THEN <<>>
          ELSE <<DispatchOf(protocol, Head(ids))>>)
         \o SuccessorDispatches(protocol, Tail(ids))

\* C22: when the dispatch of a step has returned and the step is complete,
\* the run that finds it so dispatches every one of its successors, each as
\* a call of its own, whatever its siblings are doing, and leaves the
\* siblings as they are.
C22_NoBarrier ==
    [][\A t \in Slots :
          (/\ StepCallRan(t) /\ tasks[t].pc = "returned"
           /\ stepIsComplete(StepOf(tasks[t]), tasks[t].context, now)) =>
             /\ Progressed(t)
             /\ dispatched' = SuccessorDispatches(tasks[t].protocol, StepOf(tasks[t]).nextSteps)
             /\ Cardinality({u \in Slots : /\ tasks[u].kind = "free"
                                           /\ tasks'[u].kind = "step"
                                           /\ tasks'[u].parent = t})
                   = Len(dispatched')
             /\ \A u \in Slots \ {t} :
                   (tasks[u].kind = "step" /\ tasks[u].parent = tasks[t].parent)
                      => tasks'[u] = tasks[u]]_vars

\* Of the successors [a,b] of s1, a has progressed and its successor c has
\* been dispatched while the dispatch of b has not yet been taken up.
C22_Witness ==
    \E ta, tb, tc \in Slots :
        /\ tasks[ta].kind = "step" /\ tasks[ta].pc = "progressing"
        /\ tasks[ta].protocol = DiamondProtocol /\ StepOf(tasks[ta]).id = "a"
        /\ tasks[tb].kind = "step" /\ tasks[tb].pc = "returned"
        /\ tasks[tb].parent = tasks[ta].parent /\ StepOf(tasks[tb]).id = "b"
        /\ tasks[tc].kind = "step" /\ tasks[tc].parent = ta
        /\ StepOf(tasks[tc]).id = "c"

\* C23 as stated: a run of the re-evaluation loop does not stop at the
\* entry whose steps it dispatches: the pass that made the run has come to
\* every entry of activeProtocols when the run ends, so that no entry waits
\* for the step executions of an earlier one.
C23_Original ==
    [][visited' # <<>> =>
          \A t \in Slots :
             (/\ tasks'[t].kind = "pass"
              /\ tasks[t].kind # "pass" \/ tasks'[t].idx > tasks[t].idx)
                => tasks'[t].idx = Len(activeProtocols')]_vars

\* C24 as stated: the run in which an accepted activateProtocol call ends
\* notifies 'activated' for its protocol, once and as the only notification,
\* the execution of the first step having ended before; and the protocol
\* has an entry in activeProtocols in that run.
C24_Original ==
    [][\A t \in Slots :
          (tasks[t].kind = "activate" /\ tasks'[t].kind # "activate") =>
             LET protocol == tasks[t].protocol
             IN  /\ emitted' = <<Notification("protocol:activated", protocol.id,
                                                 protocol.steps[1].id, FALSE)>>
                 /\ ~hasChildren(tasks, t)
                 /\ mapHas(activeProtocols, protocol.id)
                 /\ mapHas(activeProtocols', protocol.id)]_vars

\* C25 as stated: every id with an entry in activeProtocols is registered, and
\* every step id in its active-step set is the id of a step of the definition
\* registered under that id.
C25_Original ==
    \A i \in 1..Len(activeProtocols) :
       /\ protocols[activeProtocols[i].id] # NoProtocol
       /\ \A j \in 1..Len(activeProtocols[i].steps) :
             activeProtocols[i].steps[j] \in StepIds(protocols[activeProtocols[i].id])

====
